---- MODULE Spec2Model ----
(***************************************************************************)
(* A model of src/matrix.js: the Matrix object, its grid accessors and its *)
(* arithmetic in both calling conventions (Matrix.op, which returns a new  *)
(* Matrix, and Matrix.prototype.op, which updates the receiver).           *)
(*                                                                         *)
(* A JavaScript array is modelled as a function from the set of its        *)
(* defined indices (0-based) to its elements: an index outside DOMAIN      *)
(* reads as undefined.  Row arrays live in a heap, so that two Matrix      *)
(* objects can be told apart from two views of the same rows.              *)
(***************************************************************************)
EXTENDS Integers, Sequences, FiniteSets, TLC

\* ------------------------------------------------------------------ bounds
MaxDim == 2          \* rows and cols of the matrices of Init range over 1..MaxDim
MaxArgs == 3         \* longest operand list of a single call
MaxPureArgs == 2     \* longest operand list of a call that is followed by a second call
MaxChainArgs == 1    \* longest operand list of a call in a chain of two calls
MaxExp == 3          \* largest exponent passed to pow

\* The scalar operands the calls are tried with.
Scalars == {3}

\* ------------------------------------------------------- arrays and grids
\* a[i] = v on a JavaScript array.
ArraySet(a, i, v) == [k \in (DOMAIN a) \cup {i} |-> IF k = i THEN v ELSE a[k]]

\* The dimensions getter.
dimensions(M) == <<M.rows, M.cols>>

\* Matrix.prototype.zero(value): every row below this.rows is replaced by a
\* new array holding value at 0..cols-1 (value || 0 is value for a number).
zero(this, value) ==
    [this EXCEPT !.value =
        [row \in (DOMAIN this.value) \cup (0 .. this.rows - 1) |->
            IF row < this.rows
            THEN [col \in 0 .. this.cols - 1 |-> value]
            ELSE this.value[row]]]

\* Matrix.prototype.reset(): zero(), then value[i][i] = 1 for every
\* i < dimensions[0], whether or not i < cols.
reset(this) ==
    LET z == zero(this, 0)
    IN  [z EXCEPT !.value =
            [row \in DOMAIN z.value |->
                IF row < this.rows
                THEN ArraySet(z.value[row], row, 1)
                ELSE z.value[row]]]

\* new Matrix([rows, cols]).
MatrixDims(rows, cols) == reset([rows |-> rows, cols |-> cols, value |-> <<>>])

\* The default dimensions of the constructor.
DefaultDim == 2

\* new Matrix(undefined): dimensions default to [2, 2].
MatrixDefault == MatrixDims(DefaultDim, DefaultDim)

\* new Matrix(number): dimensions[0] and dimensions[1] are undefined, so rows
\* and cols are undefined and no loop over them runs; undefined extents are
\* written 0 here.
MatrixOfNumber == [rows |-> 0, cols |-> 0, value |-> <<>>]

\* new Matrix(grid) for a 2D array: rows is its length, cols the length of its
\* first row, and a missing or zero cell becomes 0.
MatrixFrom(grid, rows, cols) ==
    [rows |-> rows, cols |-> cols,
     value |-> [row \in 0 .. rows - 1 |->
                  [col \in 0 .. cols - 1 |->
                      IF col \in DOMAIN grid[row] THEN grid[row][col] ELSE 0]]]

\* Matrix.prototype.get(x, y): this.value[x][y].  Reading value[x] for an x
\* that is no row throws a TypeError; a y that is no index of the row reads as
\* undefined.
get(this, x, y) ==
    IF x \notin DOMAIN this.value THEN [kind |-> "TypeError", val |-> 0]
    ELSE IF y \notin DOMAIN this.value[x] THEN [kind |-> "undefined", val |-> 0]
    ELSE [kind |-> "number", val |-> this.value[x][y]]

\* Matrix.prototype.set(x, y)(_value): this.value[x][y] = _value.
set(this, x, y, _value) ==
    IF x \notin DOMAIN this.value
    THEN [threw |-> "TypeError", this |-> this]
    ELSE [threw |-> "",
          this |-> [this EXCEPT !.value[x] = ArraySet(this.value[x], y, _value)]]

\* Matrix.prototype.copy(M): this.value[row][col] = M.value[row][col] for
\* every position of M.  The first row written is M.rows - 1: when this has no
\* such row the write throws before anything changed.
copy(this, M) ==
    IF M.rows >= 1 /\ M.cols >= 1 /\ (M.rows - 1) \notin DOMAIN this.value
    THEN [threw |-> "TypeError", this |-> this]
    ELSE [threw |-> "",
          this |-> [this EXCEPT !.value =
              [row \in DOMAIN this.value |->
                  IF row < M.rows
                  THEN [col \in (DOMAIN this.value[row]) \cup (0 .. M.cols - 1) |->
                          IF col < M.cols THEN M.value[row][col]
                          ELSE this.value[row][col]]
                  ELSE this.value[row]]]]

\* The largest index of a non-empty set of indices.
MaxIndex(S) == CHOOSE n \in S : \A k \in S : k <= n

\* T as it would be if the new Matrix were given the dimensions of this one,
\* not swapped.
TSameDimensions(this) ==
    LET cells == {k \in UNION {DOMAIN this.value[row] : row \in DOMAIN this.value} : k >= 0}
        width == IF cells = {} THEN 0 ELSE MaxIndex(cells) + 1
    IN  [rows |-> this.rows, cols |-> this.cols,
         value |-> [j \in 0 .. width - 1 |->
                      [row \in {r \in DOMAIN this.value : j \in DOMAIN this.value[r]} |->
                          this.value[row][j]]]]

\* The T getter: a Matrix of dimensions [cols, rows] whose value is
\* _.zip of the rows: as many rows as the longest row has entries, row j
\* holding element j of every row (undefined where a row has none).
T(this) ==
    LET cells == {k \in UNION {DOMAIN this.value[row] : row \in DOMAIN this.value} : k >= 0}
        width == IF cells = {} THEN 0 ELSE MaxIndex(cells) + 1
    IN  [rows |-> this.cols, cols |-> this.rows,
         value |-> [j \in 0 .. width - 1 |->
                      [row \in {r \in DOMAIN this.value : j \in DOMAIN this.value[r]} |->
                          this.value[row][j]]]]

\* ------------------------------------------------------------- operands
\* An operand of a call is a number or a Matrix object; a Matrix operand is
\* named by its object identity.
Num(n) == [kind |-> "number", val |-> n]
Mat(id) == [kind |-> "Matrix", val |-> id]

\* The grid an operand names while a method of object env.self runs: the
\* receiver's own current grid when the operand is the receiver itself, and the
\* stored grid of the object otherwise.
ArgMatrix(env, this, a) == IF a.val = env.self THEN this ELSE env.mats[a.val]

\* The statement of the inner loop of add, sub and mult:
\* this.value[i][j] += / -= / *= M.value[i][j].
Combine(op, a, b) ==
    CASE op = "add" -> a + b
      [] op = "sub" -> a - b
      [] op = "mult" -> a * b

\* this.value[row][col] = Combine(op, this.value[row][col], M.value[row][col])
\* for every row < this.rows and col < this.cols.
UpdateCells(this, M, op) ==
    [this EXCEPT !.value =
        [row \in DOMAIN this.value |->
            IF row < this.rows
            THEN [col \in DOMAIN this.value[row] |->
                    IF col < this.cols
                    THEN Combine(op, this.value[row][col], M.value[row][col])
                    ELSE this.value[row][col]]
            ELSE this.value[row]]]


\* ------------------------------------- Matrix.prototype.add / sub / mult
\* One pass over args: a number becomes a Matrix of the receiver's dimensions
\* filled with it, a Matrix of other dimensions throws, and the operand is
\* folded into the receiver before the next operand is looked at.
RECURSIVE proto_add(_, _, _, _)
proto_add(env, this, args, i) ==
    IF i > Len(args) THEN [threw |-> "", this |-> this]
    ELSE IF args[i].kind = "number"
    THEN proto_add(env,
             UpdateCells(this, zero(MatrixDims(this.rows, this.cols), args[i].val), "add"),
             args, i + 1)
    ELSE IF dimensions(this) # dimensions(ArgMatrix(env, this, args[i]))
    THEN [threw |-> "Cannot add matrices of different dimensions.", this |-> this]
    ELSE proto_add(env, UpdateCells(this, ArgMatrix(env, this, args[i]), "add"),
                   args, i + 1)

RECURSIVE proto_sub(_, _, _, _)
proto_sub(env, this, args, i) ==
    IF i > Len(args) THEN [threw |-> "", this |-> this]
    ELSE IF args[i].kind = "number"
    THEN proto_sub(env,
             UpdateCells(this, zero(MatrixDims(this.rows, this.cols), args[i].val), "sub"),
             args, i + 1)
    ELSE IF dimensions(this) # dimensions(ArgMatrix(env, this, args[i]))
    THEN [threw |-> "Cannot subtract matrices of different dimensions.", this |-> this]
    ELSE proto_sub(env, UpdateCells(this, ArgMatrix(env, this, args[i]), "sub"),
                   args, i + 1)

RECURSIVE proto_mult(_, _, _, _)
proto_mult(env, this, args, i) ==
    IF i > Len(args) THEN [threw |-> "", this |-> this]
    ELSE IF args[i].kind = "number"
    THEN proto_mult(env,
             UpdateCells(this, zero(MatrixDims(this.rows, this.cols), args[i].val), "mult"),
             args, i + 1)
    ELSE IF dimensions(this) # dimensions(ArgMatrix(env, this, args[i]))
    THEN [threw |-> "Cannot compute the hadamard (element-wise) product of matrices of different dimensions.",
          this |-> this]
    ELSE proto_mult(env, UpdateCells(this, ArgMatrix(env, this, args[i]), "mult"),
                    args, i + 1)

\* ------------------------------------------------------------ Matrix.dot
\* DotSum as it would be with the loop started one index short of A.cols.
RECURSIVE DotSumShort(_, _, _, _, _, _)
DotSumShort(A, B, row, col, j, sum) ==
    IF j < 1 THEN sum
    ELSE DotSumShort(A, B, row, col, j - 1, sum + A.value[row][j - 1] * B.value[j - 1][col])

\* sum = 0; for(j = A.cols; j--; ) sum += A.value[row][j] * B.value[j][col].
RECURSIVE DotSum(_, _, _, _, _, _)
DotSum(A, B, row, col, j, sum) ==
    IF j < 0 THEN sum
    ELSE DotSum(A, B, row, col, j - 1, sum + A.value[row][j] * B.value[j][col])

\* One pairwise step: result = new Matrix([A.rows, B.cols]); result.zero();
\* then every cell of result is set to its sum.
DotStep(A, B) ==
    LET result == zero(MatrixDims(A.rows, B.cols), 0)
    IN  [result EXCEPT !.value =
            [row \in DOMAIN result.value |->
                [col \in DOMAIN result.value[row] |->
                    DotSum(A, B, row, col, A.cols - 1, 0)]]]

\* The loop of Matrix.dot over the operand grids Ms (Ms[i + 1] is args[i]).
\* result is undefined until the first step; afterwards the left operand is a
\* copy of result.
RECURSIVE DotLoop(_, _, _)
DotLoop(Ms, i, result) ==
    IF i >= Len(Ms) - 1 THEN [threw |-> "", defined |-> result.defined, M |-> result.M]
    ELSE LET A == IF ~result.defined THEN Ms[i + 1]
                  ELSE copy(MatrixDims(result.M.rows, result.M.cols), result.M).this
             B == Ms[i + 2]
         IN  IF A.cols # B.rows
             THEN [threw |-> "Cannot compute the dot product of matrices of incompatible dimensions.",
                   defined |-> result.defined, M |-> result.M]
             ELSE DotLoop(Ms, i + 1, [defined |-> TRUE, M |-> DotStep(A, B)])

\* Matrix.dot(args...): the last result, undefined when there was no step.
Matrix_dot(Ms) == DotLoop(Ms, 0, [defined |-> FALSE, M |-> MatrixOfNumber])

\* The operand grids of a call, in order.
RECURSIVE ArgGrids(_, _, _, _)
ArgGrids(env, this, args, i) ==
    IF i > Len(args) THEN <<>>
    ELSE <<IF args[i].kind = "number" THEN MatrixOfNumber
           ELSE ArgMatrix(env, this, args[i])>> \o ArgGrids(env, this, args, i + 1)

\* ------------------------------------------------ Matrix.prototype.dot
\* proto_dot as it would be with the rule of Matrix.dot (inner extents agree)
\* in place of its own (square, and equal dimensions).
proto_dotInner(env, this, args) ==
    IF \E i \in 1 .. Len(args) :
          (<<this>> \o ArgGrids(env, this, args, 1))[i].cols # ArgGrids(env, this, args, 1)[i].rows
    THEN [threw |-> "Must supply matrices of equal dimensions.", this |-> this]
    ELSE LET result == Matrix_dot(<<this>> \o ArgGrids(env, this, args, 1))
         IN  IF result.threw # "" THEN [threw |-> result.threw, this |-> this]
             ELSE copy(this, IF result.defined THEN result.M ELSE MatrixDefault)

\* Every operand must have the receiver's dimensions and the receiver must be
\* square; then this.copy(Matrix.dot(this, args...)).  With no operand,
\* Matrix.dot returns undefined and copy receives new Matrix(undefined).
proto_dot(env, this, args) ==
    IF \E i \in 1 .. Len(args) :
          \/ this.rows # this.cols
          \/ dimensions(this) # dimensions(ArgGrids(env, this, args, 1)[i])
    THEN [threw |-> "Must supply matrices of equal dimensions.", this |-> this]
    ELSE LET result == Matrix_dot(<<this>> \o ArgGrids(env, this, args, 1))
         IN  IF result.threw # "" THEN [threw |-> result.threw, this |-> this]
             ELSE copy(this, IF result.defined THEN result.M ELSE MatrixDefault)

\* --------------------------------------------- Matrix.prototype.product
\* A number multiplies every cell of the receiver; a Matrix is passed to
\* this.dot.
RECURSIVE proto_product(_, _, _, _)
proto_product(env, this, args, i) ==
    IF i > Len(args) THEN [threw |-> "", this |-> this]
    ELSE IF args[i].kind = "number"
    THEN proto_product(env,
             UpdateCells(this, zero(MatrixDims(this.rows, this.cols), args[i].val), "mult"),
             args, i + 1)
    ELSE LET r == proto_dot(env, this, <<args[i]>>)
         IN  IF r.threw # "" THEN r
             ELSE proto_product(env, r.this, args, i + 1)

\* ------------------------------------------------- Matrix.prototype.pow
\* PowLoop as it would be if each step multiplied by the receiver's current
\* value: no copy saved before the loop.
RECURSIVE PowLoopNoCopy(_, _, _, _)
PowLoopNoCopy(this, A, i, exp) ==
    IF i >= exp THEN [threw |-> "", this |-> this, dots |-> i - 1]
    ELSE LET r == proto_dot([mats |-> <<this>>, self |-> 0], this, <<Mat(1)>>)
         IN  IF r.threw # "" THEN [threw |-> r.threw, this |-> this, dots |-> i]
             ELSE PowLoopNoCopy(r.this, A, i + 1, exp)

\* for(i = 1; i < exp; i++) this.dot(A), A being a copy of the receiver taken
\* before the loop.  dots counts the calls of this.dot made.
RECURSIVE PowLoop(_, _, _, _)
PowLoop(this, A, i, exp) ==
    IF i >= exp THEN [threw |-> "", this |-> this, dots |-> i - 1]
    ELSE LET r == proto_dot([mats |-> <<A>>, self |-> 0], this, <<Mat(1)>>)
         IN  IF r.threw # "" THEN [threw |-> r.threw, this |-> this, dots |-> i]
             ELSE PowLoop(r.this, A, i + 1, exp)

proto_pow(this, exp) ==
    LET A == copy(MatrixDims(this.rows, this.cols), this).this
    IN  IF exp = 0 THEN [threw |-> "", this |-> reset(this), dots |-> 0]
        ELSE PowLoop(this, A, 1, exp)

\* --------------------------------------- Matrix.add / sub / product / mult
\* The first Matrix among the operands (0 when there is none).
RECURSIVE FirstMatrix(_, _)
FirstMatrix(args, i) ==
    IF i > Len(args) THEN 0
    ELSE IF args[i].kind = "Matrix" THEN i
    ELSE FirstMatrix(args, i + 1)

\* The environment of a call on a new Matrix, which is no operand of the call.
Fresh(mats) == [mats |-> mats, self |-> 0]

\* new Matrix(x.dimensions) for an operand x: a number has no dimensions, and
\* the constructor then takes its default.
MatrixLike(mats, a) ==
    IF a.kind = "number" THEN MatrixDefault
    ELSE MatrixDims(mats[a.val].rows, mats[a.val].cols)

\* What result.copy(x) receives for an operand x.
CopySource(mats, a) == IF a.kind = "number" THEN MatrixOfNumber ELSE mats[a.val]

\* The outcome of a method called on a new Matrix, as the outcome of the
\* function that returns that Matrix.
Returned(r) == [threw |-> r.threw, defined |-> TRUE, M |-> r.this]

TypeErrorOutcome == [threw |-> "TypeError", defined |-> FALSE, M |-> MatrixOfNumber]

\* Matrix.add: result = new Matrix(first.dimensions); result.zero();
\* result.add.apply(result, args).
Matrix_add(mats, args) ==
    IF FirstMatrix(args, 1) = 0 THEN TypeErrorOutcome
    ELSE Returned(proto_add(Fresh(mats),
                            zero(MatrixLike(mats, args[FirstMatrix(args, 1)]), 0),
                            args, 1))

\* Matrix.sub: a leading number becomes a Matrix filled with it; result is a
\* copy of the first operand, and the others are subtracted from it.
Matrix_sub(mats, args) ==
    IF FirstMatrix(args, 1) = 0 THEN TypeErrorOutcome
    ELSE LET first == args[FirstMatrix(args, 1)]
             head == IF args[1].kind = "number"
                     THEN zero(MatrixLike(mats, first), args[1].val)
                     ELSE mats[args[1].val]
             result == copy(MatrixLike(mats, first), head)
         IN  IF result.threw # "" THEN Returned(result)
             ELSE Returned(proto_sub(Fresh(mats), result.this, Tail(args), 1))

\* Matrix.product: result = new Matrix(args[0].dimensions);
\* result.copy(args.shift()); result.product.apply(result, args).
Matrix_product(mats, args) ==
    IF Len(args) = 0 THEN TypeErrorOutcome
    ELSE LET result == copy(MatrixLike(mats, args[1]), CopySource(mats, args[1]))
         IN  IF result.threw # "" THEN Returned(result)
             ELSE Returned(proto_product(Fresh(mats), result.this, Tail(args), 1))

\* Matrix.mult: result = new Matrix(args[0].dimensions); result.zero(1);
\* result.mult.apply(result, args).
Matrix_mult(mats, args) ==
    IF Len(args) = 0 THEN TypeErrorOutcome
    ELSE Returned(proto_mult(Fresh(mats), zero(MatrixLike(mats, args[1]), 1), args, 1))

\* ------------------------------------------------------------ the objects
VARIABLES
    objs,   \* the Matrix objects made so far: objs[id].value[row] is the address of a row array
    heap,   \* the row arrays: heap[address] is a row
    last,   \* the last call: what was called, on what, with what, and what came back
    pc      \* where the calling program is: "start", "called" or "done"

vars == <<objs, heap, last, pc>>

\* The grid of an object in a heap.
Deref(h, o) ==
    [rows |-> o.rows, cols |-> o.cols,
     value |-> [row \in DOMAIN o.value |-> h[o.value[row]]]]

\* The grid of every object.
GridsOf(os, h) == [id \in DOMAIN os |-> Deref(h, os[id])]
Grids == GridsOf(objs, heap)

\* The rows of a grid, as the sequence of arrays the heap is extended by.
RowsOf(M) == [k \in 1 .. Cardinality(DOMAIN M.value) |-> M.value[k - 1]]

\* A new Matrix holding grid M: the constructor and the functions that fill it
\* only ever create row arrays, so every row gets an address of its own.
NewObject(os, h, M) ==
    [objs |-> Append(os, [rows |-> M.rows, cols |-> M.cols,
                          value |-> [row \in DOMAIN M.value |-> Len(h) + 1 + row]]),
     heap |-> h \o RowsOf(M)]

\* Writes to this.value[row][col] of object id: its row arrays now hold M.
WriteRows(os, h, id, M) ==
    [a \in DOMAIN h |->
        IF \E row \in DOMAIN os[id].value : os[id].value[row] = a
        THEN M.value[CHOOSE row \in DOMAIN os[id].value : os[id].value[row] = a]
        ELSE h[a]]

\* this.value[row] = [] for every row < this.rows of object id (zero), the new
\* arrays then holding the rows of M.
ReplaceRows(os, h, id, M) ==
    [objs |-> [os EXCEPT ![id].value =
                  [row \in DOMAIN M.value |->
                      IF row < os[id].rows THEN Len(h) + 1 + row ELSE os[id].value[row]]],
     heap |-> h \o [k \in 1 .. os[id].rows |-> M.value[k - 1]]]

\* ReturnThis as it would be in a method that ends without "return this".
ReturnNothing(self) == [kind |-> "undefined", val |-> 0]

\* What a method returns when it ends with "return this".
ReturnThis(self) == Mat(self)

Threw == [kind |-> "throw", val |-> 0]
Undefined == [kind |-> "undefined", val |-> 0]

Call(op, self, args, ret, threw, dots) ==
    [op |-> op, self |-> self, args |-> args, ret |-> ret, threw |-> threw,
     dots |-> dots, before |-> Grids, objects |-> Len(objs),
     prev |-> [op |-> last.op, self |-> last.self, args |-> last.args]]

\* A call of a method that writes into the receiver's rows and returns this;
\* r is the method's outcome on the receiver's grid.
MethodCall(op, self, args, r, dots) ==
    /\ heap' = WriteRows(objs, heap, self, r.this)
    /\ objs' = objs
    /\ last' = Call(op, self, args,
                    IF r.threw = "" THEN ReturnThis(self) ELSE Threw, r.threw, dots)

\* FunctionCall as it would be if the function filled the rows of its first
\* Matrix operand (result.value = first.value) where it should fill new rows.
FunctionCallShared(op, args, r) ==
    IF r.threw = "" /\ r.defined
    THEN LET f == FirstMatrix(args, 1)
             shared == IF f = 0 THEN FALSE
                       ELSE DOMAIN objs[args[f].val].value = DOMAIN r.M.value
         IN  /\ objs' = IF shared
                        THEN Append(objs, [rows |-> r.M.rows, cols |-> r.M.cols,
                                           value |-> objs[args[f].val].value])
                        ELSE NewObject(objs, heap, r.M).objs
             /\ heap' = IF shared THEN WriteRows(objs, heap, args[f].val, r.M)
                        ELSE NewObject(objs, heap, r.M).heap
             /\ last' = Call(op, 0, args, Mat(Len(objs) + 1), "", 0)
    ELSE /\ UNCHANGED <<objs, heap>>
         /\ last' = Call(op, 0, args, IF r.threw = "" THEN Undefined ELSE Threw,
                         r.threw, 0)

\* A call of a function of the Matrix object; r is its outcome.
FunctionCall(op, args, r) ==
    IF r.threw = "" /\ r.defined
    THEN /\ objs' = NewObject(objs, heap, r.M).objs
         /\ heap' = NewObject(objs, heap, r.M).heap
         /\ last' = Call(op, 0, args, Mat(Len(objs) + 1), "", 0)
    ELSE /\ UNCHANGED <<objs, heap>>
         /\ last' = Call(op, 0, args, IF r.threw = "" THEN Undefined ELSE Threw,
                         r.threw, 0)

\* ------------------------------------------------------------------ Init
\* The literal grids the two matrices of Init may be constructed from: cells
\* -1, 0 and 1 for A ([[-1, 0], [1, -1]] when 2 x 2), cells 0, 1 and 2 for B
\* ([[2, 1], [0, 2]]).  The cells are small so that the powers and products
\* of a chain of calls stay exact.
GridA(rows, cols) ==
    [row \in 0 .. rows - 1 |-> [col \in 0 .. cols - 1 |-> ((2 * row + col) % 3) - 1]]
GridB(rows, cols) ==
    [row \in 0 .. rows - 1 |-> [col \in 0 .. cols - 1 |-> (row + 2 * col + 2) % 3]]

Dims == 1 .. MaxDim
Kinds == {"dimensions", "grid"}

\* Two matrices A (object 1) and B (object 2), each constructed from a
\* [rows, cols] pair or from a literal grid.
Init ==
    \E ra \in Dims, ca \in Dims, rb \in Dims, cb \in Dims, ka \in Kinds, kb \in Kinds :
        LET A == IF ka = "dimensions" THEN MatrixDims(ra, ca)
                 ELSE MatrixFrom(GridA(ra, ca), ra, ca)
            B == IF kb = "dimensions" THEN MatrixDims(rb, cb)
                 ELSE MatrixFrom(GridB(rb, cb), rb, cb)
            one == NewObject(<<>>, <<>>, A)
            two == NewObject(one.objs, one.heap, B)
        IN  /\ objs = two.objs
            /\ heap = two.heap
            /\ last = [op |-> "new", self |-> 0, args |-> <<>>, ret |-> Undefined,
                       threw |-> "", dots |-> 0,
                       before |-> GridsOf(two.objs, two.heap), objects |-> 2,
                       prev |-> [op |-> "new", self |-> 0, args |-> <<>>]]
            /\ pc = "start"

\* --------------------------------------------------------------- operands
Matrices == {Mat(id) : id \in DOMAIN objs}
Numbers == {Num(n) : n \in Scalars}

\* The operand lists of lengths lo..hi over a set of operands.
Lists(atoms, lo, hi) == UNION {[1 .. k -> atoms] : k \in lo .. hi}

\* ------------------------------------------------------------------ calls
Call_Matrix_add(args) == FunctionCall("Matrix.add", args, Matrix_add(Grids, args))
Call_Matrix_sub(args) == FunctionCall("Matrix.sub", args, Matrix_sub(Grids, args))
Call_Matrix_mult(args) == FunctionCall("Matrix.mult", args, Matrix_mult(Grids, args))
Call_Matrix_product(args) ==
    FunctionCall("Matrix.product", args, Matrix_product(Grids, args))
Call_Matrix_dot(args) ==
    FunctionCall("Matrix.dot", args, Matrix_dot(ArgGrids(Fresh(Grids), MatrixOfNumber, args, 1)))

Receiver(self) == [mats |-> Grids, self |-> self]

Call_add(self, args) ==
    MethodCall("add", self, args, proto_add(Receiver(self), Grids[self], args, 1), 0)
Call_sub(self, args) ==
    MethodCall("sub", self, args, proto_sub(Receiver(self), Grids[self], args, 1), 0)
Call_mult(self, args) ==
    MethodCall("mult", self, args, proto_mult(Receiver(self), Grids[self], args, 1), 0)
Call_dot(self, args) ==
    MethodCall("dot", self, args, proto_dot(Receiver(self), Grids[self], args),
               IF Len(args) > 0 THEN 1 ELSE 0)
Call_product(self, args) ==
    MethodCall("product", self, args, proto_product(Receiver(self), Grids[self], args, 1), 0)

\* pow(0) resets the receiver, which replaces its rows; any other exponent
\* writes into them.
Call_pow(self, exp) ==
    LET r == proto_pow(Grids[self], exp)
    IN  IF exp = 0
        THEN /\ objs' = ReplaceRows(objs, heap, self, r.this).objs
             /\ heap' = ReplaceRows(objs, heap, self, r.this).heap
             /\ last' = Call("pow", self, <<Num(exp)>>, ReturnThis(self), "", r.dots)
        ELSE MethodCall("pow", self, <<Num(exp)>>, r, r.dots)

\* new Matrix([rows, cols]).
Call_Matrix(rows, cols) ==
    /\ objs' = NewObject(objs, heap, MatrixDims(rows, cols)).objs
    /\ heap' = NewObject(objs, heap, MatrixDims(rows, cols)).heap
    /\ last' = Call("Matrix", 0, <<Num(rows), Num(cols)>>, Mat(Len(objs) + 1), "", 0)

\* zero and reset give the receiver new row arrays and return nothing.
Call_zero(self, value) ==
    /\ objs' = ReplaceRows(objs, heap, self, zero(Grids[self], value)).objs
    /\ heap' = ReplaceRows(objs, heap, self, zero(Grids[self], value)).heap
    /\ last' = Call("zero", self, <<Num(value)>>, Undefined, "", 0)

Call_reset(self) ==
    /\ objs' = ReplaceRows(objs, heap, self, reset(Grids[self])).objs
    /\ heap' = ReplaceRows(objs, heap, self, reset(Grids[self])).heap
    /\ last' = Call("reset", self, <<>>, Undefined, "", 0)

\* copy, get and set work on the receiver's row arrays.
Call_copy(self, M) ==
    LET r == copy(Grids[self], Grids[M])
    IN  /\ heap' = WriteRows(objs, heap, self, r.this)
        /\ objs' = objs
        /\ last' = Call("copy", self, <<Mat(M)>>,
                        IF r.threw = "" THEN Undefined ELSE Threw, r.threw, 0)

Call_get(self, x, y) ==
    LET r == get(Grids[self], x, y)
    IN  /\ UNCHANGED <<objs, heap>>
        /\ last' = Call("get", self, <<Num(x), Num(y)>>,
                        IF r.kind = "TypeError" THEN Threw ELSE r,
                        IF r.kind = "TypeError" THEN "TypeError" ELSE "", 0)

Call_set(self, x, y, _value) ==
    LET r == set(Grids[self], x, y, _value)
    IN  /\ heap' = WriteRows(objs, heap, self, r.this)
        /\ objs' = objs
        /\ last' = Call("set", self, <<Num(x), Num(y), Num(_value)>>,
                        IF r.threw = "" THEN Undefined ELSE Threw, r.threw, 0)

\* The T getter returns a new Matrix.
Call_T(self) ==
    /\ objs' = NewObject(objs, heap, T(Grids[self])).objs
    /\ heap' = NewObject(objs, heap, T(Grids[self])).heap
    /\ last' = Call("T", self, <<>>, Mat(Len(objs) + 1), "", 0)

\* ------------------------------------------------------- the calling program
\* The program makes one call, and may then make a second one: a call of its
\* own, or a call chained to the first, whose receiver is what the first
\* returned (A.add(B).sub(C)).
First(A) == pc = "start" /\ A /\ pc' = "called"
Second(A) == pc = "called" /\ A /\ pc' = "done"
Chained(A) ==
    pc = "called" /\ last.ret.kind = "Matrix" /\ A /\ pc' = "chained"

\* A program that calls dot once, in either form.
NextDot ==
    \/ \E args \in Lists(Matrices, 1, MaxArgs) : First(Call_Matrix_dot(args))
    \/ \E self \in DOMAIN objs : \E args \in Lists(Matrices, 0, MaxArgs) :
          First(Call_dot(self, args))

SpecDot == Init /\ [][NextDot]_vars

\* ------------------------------------------------- reference mathematics
\* A matrix as mathematics has it: its extents and one number per position.
Positions(rows, cols) == (0 .. rows - 1) \X (0 .. cols - 1)

MathOf(M) ==
    [rows |-> M.rows, cols |-> M.cols,
     at |-> [p \in Positions(M.rows, M.cols) |-> M.value[p[1]][p[2]]]]

\* f[0] + ... + f[n - 1].
RECURSIVE Sigma(_, _)
Sigma(f, n) == IF n = 0 THEN 0 ELSE Sigma(f, n - 1) + f[n - 1]

MathDot(X, Y) ==
    [rows |-> X.rows, cols |-> Y.cols,
     at |-> [p \in Positions(X.rows, Y.cols) |->
               Sigma([k \in 0 .. X.cols - 1 |-> X.at[<<p[1], k>>] * Y.at[<<k, p[2]>>]],
                     X.cols)]]

\* ((Xs[1] . Xs[2]) . Xs[3]) ... up to Xs[n].
RECURSIVE MathChain(_, _)
MathChain(Xs, n) == IF n = 1 THEN Xs[1] ELSE MathDot(MathChain(Xs, n - 1), Xs[n])

MathIdentity(n) ==
    [rows |-> n, cols |-> n,
     at |-> [p \in Positions(n, n) |-> IF p[1] = p[2] THEN 1 ELSE 0]]

MathScale(X, s) == [X EXCEPT !.at = [p \in DOMAIN X.at |-> s * X.at[p]]]

\* The Matrix operands of the last call, as they were before it.
Operands == [i \in 1 .. Len(last.args) |-> MathOf(last.before[last.args[i].val])]
Receiver0 == MathOf(last.before[last.self])

\* Every adjacent pair of a chain is compatible.
Compatible(Xs) == \A i \in 1 .. Len(Xs) - 1 : Xs[i].cols = Xs[i + 1].rows

\* No object that existed before the last call has another grid after it.
OperandsUntouched == \A id \in DOMAIN last.before : Grids[id] = last.before[id]

\* The grid of an object is exactly rows x cols.
WellFormed(M) ==
    /\ DOMAIN M.value = 0 .. M.rows - 1
    /\ \A row \in DOMAIN M.value : DOMAIN M.value[row] = 0 .. M.cols - 1

\* C1: Matrix.dot over a chain of N >= 2 matrices whose adjacent pairs are
\* compatible returns a Matrix of shape [first.rows, last.cols] holding the
\* left-to-right chained product, each cell the sum over k of
\* left[row][k] * right[k][col]; and dot(A, I) is A, cell for cell, when I is
\* the identity of shape A.cols x A.cols.
C1_DotChain ==
    (last.op = "Matrix.dot" /\ Len(last.args) >= 2 /\ Compatible(Operands)) =>
        /\ last.ret.kind = "Matrix"
        /\ WellFormed(Grids[last.ret.val])
        /\ Grids[last.ret.val].rows = Operands[1].rows
        /\ Grids[last.ret.val].cols = Operands[Len(Operands)].cols
        /\ MathOf(Grids[last.ret.val]) = MathChain(Operands, Len(Operands))
        /\ (Len(Operands) = 2 /\ Operands[2] = MathIdentity(Operands[1].cols)) =>
              MathOf(Grids[last.ret.val]) = Operands[1]

\* A chain of three matrices whose shape changes along the way.
C1_Witness ==
    /\ last.op = "Matrix.dot" /\ Len(last.args) = 3 /\ Compatible(Operands)
    /\ Operands[1].cols # Operands[1].rows
    /\ last.ret.kind = "Matrix"
    /\ \E p \in DOMAIN MathOf(Grids[last.ret.val]).at :
          MathOf(Grids[last.ret.val]).at[p] > 1

\* C8: Matrix.dot over N >= 2 operands throws exactly when some pairwise step
\* has left.cols # right.rows; A.dot(B1, ..., Bk), k >= 1, throws exactly when
\* A is not square or some Bi has not A's dimensions; a call that throws
\* leaves every grid as it was; and a call of A.dot that does not throw leaves
\* A equal to Matrix.dot(A, B1, ..., Bk).
C8_DotRejects ==
    /\ (last.op = "Matrix.dot" /\ Len(last.args) >= 2) =>
          /\ (last.ret = Threw) <=> ~Compatible(Operands)
          /\ OperandsUntouched
    /\ (last.op = "dot" /\ Len(last.args) >= 1) =>
          /\ (last.ret = Threw) <=>
                \/ Receiver0.rows # Receiver0.cols
                \/ \E i \in 1 .. Len(Operands) :
                      <<Operands[i].rows, Operands[i].cols>> # <<Receiver0.rows, Receiver0.cols>>
          /\ last.ret = Threw => OperandsUntouched
          /\ last.ret # Threw =>
                /\ last.ret = Mat(last.self)
                /\ MathOf(Grids[last.self]) =
                      MathChain(<<Receiver0>> \o Operands, Len(Operands) + 1)
                /\ \A id \in DOMAIN last.before :
                      id # last.self => Grids[id] = last.before[id]

\* A.dot(B1, B2) on a square A, rejected because of B2 alone.
C8_Witness ==
    /\ last.op = "dot" /\ Len(last.args) = 2 /\ last.ret = Threw
    /\ Receiver0.rows = Receiver0.cols /\ Receiver0.rows > 1
    /\ <<Operands[1].rows, Operands[1].cols>> = <<Receiver0.rows, Receiver0.cols>>
    /\ OperandsUntouched

\* ------------------------------------------------- add, sub and mult
\* A program that calls add, sub or mult once, in either form.
NextElem ==
    \/ \E args \in Lists(Matrices \cup Numbers, 1, MaxArgs) : First(Call_Matrix_add(args))
    \/ \E args \in Lists(Matrices \cup Numbers, 1, MaxArgs) : First(Call_Matrix_sub(args))
    \/ \E args \in Lists(Matrices \cup Numbers, 1, MaxArgs) : First(Call_Matrix_mult(args))
    \/ \E self \in DOMAIN objs : \E args \in Lists(Matrices \cup Numbers, 0, MaxArgs) :
          First(Call_add(self, args))
    \/ \E self \in DOMAIN objs : \E args \in Lists(Matrices \cup Numbers, 0, MaxArgs) :
          First(Call_sub(self, args))
    \/ \E self \in DOMAIN objs : \E args \in Lists(Matrices \cup Numbers, 0, MaxArgs) :
          First(Call_mult(self, args))

SpecElem == Init /\ [][NextElem]_vars

\* The value an operand contributes at position p: a number everywhere, a
\* Matrix its own cell.
ValAt(a, p) == IF a.kind = "number" THEN a.val ELSE MathOf(last.before[a.val]).at[p]

Apply(op, x, y) ==
    CASE op = "add" -> x + y
      [] op = "sub" -> x - y
      [] op = "mult" -> x * y

\* ((start op args[1]) op args[2]) ... op args[n], at position p.
RECURSIVE FoldAt(_, _, _, _, _)
FoldAt(op, start, args, p, n) ==
    IF n = 0 THEN start
    ELSE Apply(op, FoldAt(op, start, args, p, n - 1), ValAt(args[n], p))

\* start + (-1 * args[1]) + ... + (-1 * args[n]), at position p.
RECURSIVE NegatedSumAt(_, _, _, _)
NegatedSumAt(start, args, p, n) ==
    IF n = 0 THEN start
    ELSE NegatedSumAt(start, args, p, n - 1) + (-1) * ValAt(args[n], p)

Range(f) == {f[i] : i \in DOMAIN f}

\* The dimensions of the Matrix operands of the last call.
OperandShapes ==
    {dimensions(last.before[last.args[i].val]) :
        i \in {k \in 1 .. Len(last.args) : last.args[k].kind = "Matrix"}}

ElementwiseOp ==
    CASE last.op \in {"add", "Matrix.add"} -> "add"
      [] last.op \in {"sub", "Matrix.sub"} -> "sub"
      [] last.op \in {"mult", "Matrix.mult"} -> "mult"

\* The result of the last call, a Matrix of dimensions shape, holds the
\* left-to-right fold of the operands from start.
HoldsFold(id, shape, start(_), args) ==
    /\ dimensions(Grids[id]) = shape
    /\ \A p \in Positions(shape[1], shape[2]) :
          /\ MathOf(Grids[id]).at[p] = FoldAt(ElementwiseOp, start(p), args, p, Len(args))
          /\ ElementwiseOp = "sub" =>
                MathOf(Grids[id]).at[p] = NegatedSumAt(start(p), args, p, Len(args))

FirstOperandAt(p) == ValAt(last.args[1], p)
ReceiverAt(p) == Receiver0.at[p]

\* C2: for add, sub and mult in either form, with every Matrix operand of one
\* shape and the numbers broadcast, the result is the left-to-right fold,
\* position by position (add(A, s) is A + s, sub(A, B, C) is A - B - C, which
\* is A + -1*B + -1*C, Matrix.sub(s, A, B) is s - A - B, mult(A, B) is A * B),
\* and it has the shape of the Matrix operands.  (For a method the operands
\* are taken to be other objects than the receiver: an operand that is the
\* receiver is read after the operands before it were folded in.)
C2_ElementwiseFold ==
    /\ (last.op \in {"Matrix.add", "Matrix.sub", "Matrix.mult"}
            /\ Cardinality(OperandShapes) = 1) =>
          /\ last.ret.kind = "Matrix"
          /\ HoldsFold(last.ret.val, CHOOSE d \in OperandShapes : TRUE,
                       FirstOperandAt, Tail(last.args))
    /\ (last.op \in {"add", "sub", "mult"}
            /\ Mat(last.self) \notin Range(last.args)
            /\ OperandShapes \subseteq {<<Receiver0.rows, Receiver0.cols>>}) =>
          /\ last.ret = Mat(last.self)
          /\ HoldsFold(last.self, <<Receiver0.rows, Receiver0.cols>>,
                       ReceiverAt, last.args)

\* C2 without the calls of Matrix.mult whose first operand is a number.
C2_ExceptMultOfNumber ==
    (last.op = "Matrix.mult" => last.args[1].kind = "Matrix") => C2_ElementwiseFold

\* The last call was a mutating add, sub or mult that threw because a Matrix
\* operand's dimensions differ from the receiver's.
ShapeErrorOfMethod ==
    /\ last.op \in {"add", "sub", "mult"}
    /\ last.threw \in
          {"Cannot add matrices of different dimensions.",
           "Cannot subtract matrices of different dimensions.",
           "Cannot compute the hadamard (element-wise) product of matrices of different dimensions."}

\* The position in the operand list of the first Matrix whose dimensions
\* differ from the receiver's.
FirstMismatch ==
    CHOOSE k \in 1 .. Len(last.args) :
        /\ last.args[k].kind = "Matrix"
        /\ dimensions(last.before[last.args[k].val]) # dimensions(last.before[last.self])
        /\ \A j \in 1 .. k - 1 :
              last.args[j].kind = "Matrix" =>
                 dimensions(last.before[last.args[j].val]) = dimensions(last.before[last.self])

\* C11: after a mutating add, sub or mult that failed with a shape error,
\* wherever in the operand list the mismatched Matrix stands, the receiver's
\* grid is the grid it had before the call: no operand was partially applied.
C11_FailedCallLeavesReceiver ==
    ShapeErrorOfMethod => Grids[last.self] = last.before[last.self]

\* What a failed call does leave: the operands before the mismatched one are
\* folded into the receiver (operands other than the receiver itself), so the
\* grid is as before only when nothing that changes it precedes the mismatch.
C11_EarlierOperandsApplied ==
    ShapeErrorOfMethod =>
        /\ last.ret = Threw
        /\ \A id \in DOMAIN last.before : id # last.self => Grids[id] = last.before[id]
        /\ Len(objs) = last.objects
        /\ FirstMismatch = 1 => Grids[last.self] = last.before[last.self]
        /\ Mat(last.self) \notin Range(SubSeq(last.args, 1, FirstMismatch - 1)) =>
              HoldsFold(last.self, <<Receiver0.rows, Receiver0.cols>>, ReceiverAt,
                        SubSeq(last.args, 1, FirstMismatch - 1))

\* ------------------------------------------------------ product and pow
\* A program that calls product once, in either form, or pow.
NextProduct ==
    \/ \E args \in Lists(Matrices \cup Numbers, 1, MaxArgs) :
          First(Call_Matrix_product(args))
    \/ \E self \in DOMAIN objs : \E args \in Lists(Matrices \cup Numbers, 0, MaxArgs) :
          First(Call_product(self, args))
    \/ \E self \in DOMAIN objs : \E exp \in 0 .. MaxExp : First(Call_pow(self, exp))

SpecProduct == Init /\ [][NextProduct]_vars

\* The Matrix operands among args, in order, as they were before the call.
RECURSIVE MatrixOperands(_, _)
MatrixOperands(args, i) ==
    IF i > Len(args) THEN <<>>
    ELSE (IF args[i].kind = "Matrix" THEN <<MathOf(last.before[args[i].val])>> ELSE <<>>)
         \o MatrixOperands(args, i + 1)

\* The product of the numbers among args.
RECURSIVE NumberProduct(_, _)
NumberProduct(args, i) ==
    IF i > Len(args) THEN 1
    ELSE (IF args[i].kind = "number" THEN args[i].val ELSE 1) * NumberProduct(args, i + 1)

\* (product of the numbers) times (left-to-right dot product of Xs).
ScaledChain(Xs, args) == MathScale(MathChain(Xs, Len(Xs)), NumberProduct(args, 1))

SquareOfOneShape(shapes) ==
    /\ Cardinality(shapes) = 1
    /\ \A d \in shapes : d[1] = d[2]

\* C7: for operands that are numbers and square matrices of one shape, in any
\* order (a leading number included), product is the fold in operand order,
\* a number scaling every cell and a Matrix applying one dot step: both
\* Matrix.product(x1, ..., xn) and the method on the first Matrix give
\* (product of the numbers) times (left-to-right dot product of the matrices).
\* (For the method the operands are other objects than the receiver.)
C7_ProductFold ==
    /\ (last.op = "Matrix.product" /\ SquareOfOneShape(OperandShapes)) =>
          /\ last.ret.kind = "Matrix"
          /\ MathOf(Grids[last.ret.val]) =
                ScaledChain(MatrixOperands(last.args, 1), last.args)
    /\ (last.op = "product"
            /\ Mat(last.self) \notin Range(last.args)
            /\ SquareOfOneShape(OperandShapes \cup {<<Receiver0.rows, Receiver0.cols>>})) =>
          /\ last.ret = Mat(last.self)
          /\ MathOf(Grids[last.self]) =
                ScaledChain(<<Receiver0>> \o MatrixOperands(last.args, 1), last.args)

\* C7 without the calls of Matrix.product whose first operand is a number.
C7_ExceptProductOfNumber ==
    (last.op = "Matrix.product" => last.args[1].kind = "Matrix") => C7_ProductFold

\* n copies of X.
Copies(X, n) == [i \in 1 .. n |-> X]

\* C6: on a square A, pow(0) leaves the identity pattern whatever A held,
\* pow(1) leaves every cell as it was, and pow(n), n >= 2, leaves the n-fold
\* dot product of A's original value with itself, made with exactly n - 1
\* calls of dot against the copy saved before the loop.
C6_Pow ==
    (last.op = "pow" /\ Receiver0.rows = Receiver0.cols) =>
        LET n == last.args[1].val
        IN  /\ last.ret = Mat(last.self)
            /\ dimensions(Grids[last.self]) = <<Receiver0.rows, Receiver0.cols>>
            /\ n = 0 => /\ MathOf(Grids[last.self]) = MathIdentity(Receiver0.rows)
                        /\ WellFormed(Grids[last.self])
            /\ n = 1 => Grids[last.self] = last.before[last.self]
            /\ n >= 1 => /\ MathOf(Grids[last.self]) = MathChain(Copies(Receiver0, n), n)
                         /\ last.dots = n - 1

\* pow(3) of a square matrix that is neither the identity nor 1 x 1.
C6_Witness ==
    /\ last.op = "pow" /\ last.args[1].val = 3 /\ last.dots = 2
    /\ Receiver0.rows = Receiver0.cols /\ Receiver0.rows > 1
    /\ Receiver0 # MathIdentity(Receiver0.rows)
    /\ MathOf(Grids[last.self]) # Receiver0

\* ------------------------------------------------------ pure functions
\* A program that calls one of the functions of the Matrix object and then
\* adds a number to one of the matrices, the returned one included.
NextPure ==
    \/ \E args \in Lists(Matrices \cup Numbers, 1, MaxPureArgs) : First(Call_Matrix_add(args))
    \/ \E args \in Lists(Matrices \cup Numbers, 1, MaxPureArgs) : First(Call_Matrix_sub(args))
    \/ \E args \in Lists(Matrices \cup Numbers, 1, MaxPureArgs) : First(Call_Matrix_mult(args))
    \/ \E args \in Lists(Matrices \cup Numbers, 1, MaxPureArgs) :
          First(Call_Matrix_product(args))
    \/ \E args \in Lists(Matrices, 1, MaxPureArgs) : First(Call_Matrix_dot(args))
    \/ \E self \in DOMAIN objs : \E n \in Scalars : Second(Call_add(self, <<Num(n)>>))

SpecPure == Init /\ [][NextPure]_vars

Functions == {"Matrix.add", "Matrix.sub", "Matrix.dot", "Matrix.product", "Matrix.mult"}
Methods == {"add", "sub", "mult", "dot", "product", "pow"}

\* The addresses of the rows of an object.
RowAddresses(id) == {objs[id].value[row] : row \in DOMAIN objs[id].value}

\* C3: a call of Matrix.add, Matrix.sub, Matrix.dot, Matrix.product or
\* Matrix.mult leaves the grid of every matrix passed to it as it was, and the
\* Matrix it returns is a new object that shares no row with any other; so a
\* later write into the returned Matrix changes no operand, and a later write
\* into an operand does not change the returned Matrix.
C3_PureFrame ==
    /\ last.op \in Functions =>
          /\ OperandsUntouched
          /\ last.ret.kind = "Matrix" =>
                /\ last.ret.val \notin DOMAIN last.before
                /\ last.ret.val \in DOMAIN objs
                /\ \A id \in DOMAIN objs \ {last.ret.val} :
                      RowAddresses(id) \cap RowAddresses(last.ret.val) = {}
          /\ (last.threw = "" /\ (last.op = "Matrix.dot" => Len(last.args) >= 2)) =>
                last.ret.kind = "Matrix"
    /\ (last.op \in Methods /\ last.prev.op \in Functions) =>
          \A id \in DOMAIN objs \ {last.self} : Grids[id] = last.before[id]

\* A function returned a Matrix with the cells of its first operand, and a
\* number was then added to the returned Matrix.
C3_Witness ==
    /\ last.op = "add" /\ last.prev.op \in Functions
    /\ last.self \notin {1, 2}
    /\ last.before[last.self].value = last.before[1].value
    /\ Grids[last.self] # last.before[last.self]

\* ---------------------------------------------------------------- chains
\* The methods, called with the operand lists of a chain.
ChainLists == Lists(Matrices \cup Numbers, 0, MaxChainArgs)

Method(self) ==
    \/ \E args \in ChainLists : Call_add(self, args)
    \/ \E args \in ChainLists : Call_sub(self, args)
    \/ \E args \in ChainLists : Call_mult(self, args)
    \/ \E args \in ChainLists : Call_dot(self, args)
    \/ \E args \in ChainLists : Call_product(self, args)
    \/ \E exp \in 0 .. MaxExp : Call_pow(self, exp)

\* A program that calls a method of a Matrix and chains a second call to it.
NextChain ==
    \/ \E self \in DOMAIN objs : First(Method(self))
    \/ Chained(Method(last.ret.val))

SpecChain == Init /\ [][NextChain]_vars

\* The receiver after the last call holds what one application of the method
\* to its grid before the call gives.
AppliedOnce ==
    CASE last.op \in {"add", "sub", "mult"} ->
            HoldsFold(last.self, <<Receiver0.rows, Receiver0.cols>>, ReceiverAt, last.args)
      [] last.op \in {"dot", "product"} ->
            MathOf(Grids[last.self]) =
                ScaledChain(<<Receiver0>> \o MatrixOperands(last.args, 1), last.args)
      [] last.op = "pow" ->
            MathOf(Grids[last.self]) =
                IF last.args[1].val = 0
                THEN [rows |-> Receiver0.rows, cols |-> Receiver0.cols,
                      at |-> [p \in Positions(Receiver0.rows, Receiver0.cols) |->
                                IF p[1] = p[2] THEN 1 ELSE 0]]
                ELSE MathChain(Copies(Receiver0, last.args[1].val), last.args[1].val)

\* C4: a call of add, sub, mult, dot, product or pow that completes returns
\* the receiver itself, so the calls of a chain (A.add(B).sub(C)) all operate
\* on the one instance A; each call applies its update to A exactly once, and
\* A has the rows and cols it had.  (dot is called with an operand; operands
\* are other objects than the receiver, and pow has an exponent >= 1 unless it
\* is 0.)
C4_ChainReturnsThis ==
    (last.op \in Methods /\ last.threw = "") =>
        /\ last.ret = Mat(last.self)
        /\ Len(objs) = last.objects
        /\ dimensions(objs[last.self]) = dimensions(last.before[last.self])
        /\ pc = "chained" => last.self = last.prev.self
        /\ \A id \in DOMAIN objs \ {last.self} : Grids[id] = last.before[id]
        /\ (Mat(last.self) \notin Range(last.args)
              /\ (last.op = "dot" => Len(last.args) >= 1)) => AppliedOnce

\* A.add(B).sub(3) on a matrix with more than one cell, both calls on A.
C4_Witness ==
    /\ pc = "chained" /\ last.op = "sub" /\ last.prev.op = "add"
    /\ last.prev.args = <<Mat(2)>> /\ last.args = <<Num(3)>>
    /\ last.threw = "" /\ last.self = 1 /\ last.ret = Mat(1)
    /\ Receiver0.rows * Receiver0.cols > 1
    /\ \E p \in DOMAIN Receiver0.at : MathOf(Grids[1]).at[p] = Receiver0.at[p] - 3

\* ------------------------------------------------- the grid and its access
\* The positions get and set are tried at: every position of the largest grid,
\* and one step outside it on either side.
Index == -1 .. MaxDim

\* A program that constructs a Matrix, or resets, fills, copies, reads, writes
\* or transposes one; a transpose may be transposed again (A.T.T).
NextGrid ==
    \/ \E rows \in Dims, cols \in Dims : First(Call_Matrix(rows, cols))
    \/ \E self \in DOMAIN objs : \E value \in Scalars \cup {0} : First(Call_zero(self, value))
    \/ \E self \in DOMAIN objs : First(Call_reset(self))
    \/ \E self \in DOMAIN objs, M \in DOMAIN objs : First(Call_copy(self, M))
    \/ \E self \in DOMAIN objs : \E x \in Index, y \in Index : First(Call_get(self, x, y))
    \/ \E self \in DOMAIN objs : \E x \in Index, y \in Index : \E v \in Scalars :
          First(Call_set(self, x, y, v))
    \/ \E self \in DOMAIN objs : First(Call_T(self))
    \/ Chained(Call_T(last.ret.val))

SpecGrid == Init /\ [][NextGrid]_vars

\* C5: in every reachable state the grid of every Matrix has exactly rows
\* rows, each of exactly cols entries.
C5_GridShape == \A id \in DOMAIN objs : WellFormed(Grids[id])

InBounds(M, x, y) == 0 <= x /\ x < M.rows /\ 0 <= y /\ y < M.cols

\* C9: get(row, col) returns the stored number when 0 <= row < rows and
\* 0 <= col < cols and fails otherwise; set writes the number under the same
\* check, so a set outside the bounds fails and leaves the grid as it was.
C9_BoundsChecked ==
    /\ last.op = "get" =>
          IF InBounds(last.before[last.self], last.args[1].val, last.args[2].val)
          THEN last.ret = Num(MathOf(last.before[last.self]).at[<<last.args[1].val,
                                                                  last.args[2].val>>])
          ELSE last.ret = Threw
    /\ last.op = "set" =>
          IF InBounds(last.before[last.self], last.args[1].val, last.args[2].val)
          THEN /\ last.ret # Threw
               /\ MathOf(Grids[last.self]) =
                     [MathOf(last.before[last.self]) EXCEPT
                         !.at[<<last.args[1].val, last.args[2].val>>] = last.args[3].val]
          ELSE /\ last.ret = Threw
               /\ Grids[last.self] = last.before[last.self]

\* C9 at the positions inside the bounds only.
C9_InsideBounds ==
    (last.op \in {"get", "set"}
        /\ InBounds(last.before[last.self], last.args[1].val, last.args[2].val)) =>
            C9_BoundsChecked

\* C10: A.T is a new Matrix of shape cols x rows whose cell [j][i] is A's cell
\* [i][j], for A of any shape; reading it leaves A's grid as it was; and
\* A.T.T equals A in shape and in every cell.
C10_Transpose ==
    last.op = "T" =>
        LET A == MathOf(last.before[last.self])
            R == MathOf(Grids[last.ret.val])
        IN  /\ last.ret.kind = "Matrix"
            /\ last.ret.val \notin DOMAIN last.before
            /\ \A id \in DOMAIN objs \ {last.ret.val} :
                  RowAddresses(id) \cap RowAddresses(last.ret.val) = {}
            /\ R.rows = A.cols /\ R.cols = A.rows
            /\ \A p \in DOMAIN A.at : R.at[<<p[2], p[1]>>] = A.at[p]
            /\ OperandsUntouched
            /\ (pc = "chained" /\ last.prev.op = "T") =>
                  R = MathOf(Grids[last.prev.self])

\* A.T.T of a matrix that is not square.
C10_Witness ==
    /\ pc = "chained" /\ last.op = "T" /\ last.prev.op = "T"
    /\ Grids[last.prev.self].rows # Grids[last.prev.self].cols
    /\ MathOf(Grids[last.ret.val]) = MathOf(Grids[last.prev.self])
    /\ \E p \in DOMAIN MathOf(Grids[last.ret.val]).at : MathOf(Grids[last.ret.val]).at[p] > 1

====
